---------------------------- MODULE Spec2Model ----------------------------
(***************************************************************************)
(* A model of pkg/shccn (shccn.go): line classification, function          *)
(* extraction and the cyclomatic-complexity heuristic for shell scripts.   *)
(*                                                                         *)
(* A line of text (a Go string) is a sequence of one-character strings,    *)
(* <<"f", "o", "o">> for "foo"; a []string is a sequence of such lines.    *)
(* A Go map[string][]string is a function whose DOMAIN is the set of keys  *)
(* that have been assigned.  Regular expressions are modelled by what      *)
(* regexp.MatchString computes for them (an unanchored search).            *)
(***************************************************************************)
EXTENDS Integers, Sequences, FiniteSets, TLC

(***************************************************************************)
(* String primitives (package strings / regexp semantics).                 *)
(***************************************************************************)

\* The characters matched by \s in Go's regexp syntax: [\t\n\f\r ].
WhiteSpace == {" ", "\t", "\n", "\f", "\r"}

\* The two quote characters the patterns mention.
Quotes == {"'", "\""}

\* pat occurs in s starting at position p.
HasAt(s, pat, p) ==
    /\ p >= 1
    /\ p + Len(pat) - 1 <= Len(s)
    /\ \A k \in 1..Len(pat) : s[p + k - 1] = pat[k]

\* strings.Contains(s, pat), and MatchString of a literal pattern.
Contains(s, pat) == \E p \in 1..Len(s) : HasAt(s, pat, p)

\* strings.Replace(s, old, new, -1) for one-character old and new.
ReplaceChar(s, old, new) == [k \in 1..Len(s) |-> IF s[k] = old THEN new ELSE s[k]]

\* strings.Replace(s, old, "", -1) for a one-character old.
RemoveChar(s, old) == SelectSeq(s, LAMBDA c : c # old)

\* strings.Split(s, sep) for a one-character sep: the pieces between the
\* separators, empty pieces included; Split("", sep) is [""].
RECURSIVE Split(_, _)
Split(s, sep) ==
    IF \E p \in 1..Len(s) : s[p] = sep
    THEN LET p == CHOOSE q \in 1..Len(s) :
                     s[q] = sep /\ \A k \in 1..(q - 1) : s[k] # sep
         IN  <<SubSeq(s, 1, p - 1)>> \o Split(SubSeq(s, p + 1, Len(s)), sep)
    ELSE <<s>>

\* strings.Join(elems, "").
RECURSIVE Join(_)
Join(elems) == IF elems = <<>> THEN <<>> ELSE Head(elems) \o Join(Tail(elems))

(***************************************************************************)
(* The package-level regular expressions.                                  *)
(***************************************************************************)

KwIf == <<"i", "f">>
KwWhile == <<"w", "h", "i", "l", "e">>
KwFor == <<"f", "o", "r">>
KwCaseEnd == <<";", ";">>
OpAnd == <<"&", "&">>
OpOr == <<"|", "|">>

\* functionEndExp = `}`
functionEndExp(v) == Contains(v, <<"}">>)

\* The characters p+1..q-1 of v can be matched by `.*`: `.` matches every
\* character but the newline.
DotStarBetween(v, p, q) == \A k \in (p + 1)..(q - 1) : v[k] # "\n"

\* functionNotEndExp = `.*'.*}.*|.*".*}.*` : a quote before a }, with no
\* newline between the two.
functionNotEndExp(v) ==
    \E p \in 1..Len(v) : \E q \in (p + 1)..Len(v) :
        v[p] \in Quotes /\ v[q] = "}" /\ DotStarBetween(v, p, q)

\* A slip ccnExp could make: the alternative for is missing.
ccnExpNoFor(v) ==
    \/ Contains(v, KwIf)
    \/ Contains(v, KwWhile)
    \/ Contains(v, KwCaseEnd)

\* ccnExp = `if|while|for|;;`
ccnExp(v) ==
    \/ Contains(v, KwIf)
    \/ Contains(v, KwWhile)
    \/ Contains(v, KwFor)
    \/ Contains(v, KwCaseEnd)

\* NotCcnExp = `.*'.*if|.*".*if|.*'.*while|.*".*while|.*'.*for|.*".*for` :
\* a quote before an occurrence of if, while or for, with no newline between
\* the two.
NotCcnExp(v) ==
    \E p \in 1..Len(v) : \E q \in (p + 1)..Len(v) :
        /\ v[p] \in Quotes
        /\ (HasAt(v, KwIf, q) \/ HasAt(v, KwWhile, q) \/ HasAt(v, KwFor, q))
        /\ DotStarBetween(v, p, q)

\* conditionExp = `&&|\|\|`
conditionExp(element) == Contains(element, OpAnd) \/ Contains(element, OpOr)

\* commentExp = `^\s*#` (local to isCommentLine).
commentExp(line) ==
    \E p \in 1..Len(line) :
        line[p] = "#" /\ \A k \in 1..(p - 1) : line[k] \in WhiteSpace

\* functionStartExp = `.*\(\s*\)\s*{` (local to isFunctionLine).
functionStartExp(line) ==
    \E p \in 1..Len(line) : \E q \in (p + 1)..Len(line) : \E r \in (q + 1)..Len(line) :
        /\ line[p] = "(" /\ line[q] = ")" /\ line[r] = "{"
        /\ \A k \in (p + 1)..(q - 1) : line[k] \in WhiteSpace
        /\ \A k \in (q + 1)..(r - 1) : line[k] \in WhiteSpace

(***************************************************************************)
(* Line classification.                                                    *)
(***************************************************************************)

\* isBlankLine: the line with every space removed is empty.
isBlankLine(line) == Len(RemoveChar(line, " ")) = 0

\* isCommentLine: the line matches ^\s*# .
isCommentLine(line) == commentExp(line)

\* The loop of removeQuote over the characters of the line: flag is set
\* between a ' and the next ', and only characters met with flag unset and
\* that are not a ' are kept.
RECURSIVE removeQuoteLoop(_, _, _)
removeQuoteLoop(splited, flag, tmp) ==
    IF splited = <<>> THEN tmp
    ELSE LET v == Head(splited) IN
         IF flag
         THEN removeQuoteLoop(Tail(splited), v # "'", tmp)
         ELSE IF v = "'"
              THEN removeQuoteLoop(Tail(splited), TRUE, tmp)
              ELSE removeQuoteLoop(Tail(splited), FALSE, Append(tmp, <<v>>))

\* removeQuote: strings.Split(line, "") gives the characters; the kept ones
\* are joined back.
removeQuote(line) == Join(removeQuoteLoop(line, FALSE, <<>>))

\* The text isFunctionLine matches against functionStartExp: tmp is the line
\* with " replaced by ', and when tmp holds a ' it is the ORIGINAL line, not
\* tmp, that is handed to removeQuote.
isFunctionLineText(line) ==
    LET tmp == ReplaceChar(line, "\"", "'")
    IN  IF Contains(tmp, <<"'">>) THEN removeQuote(line) ELSE line

\* isFunctionLine.
isFunctionLine(line) == functionStartExp(isFunctionLineText(line))

(***************************************************************************)
(* Whole-file counts (methods of FileContents; fc.Lines is the argument).  *)
(***************************************************************************)

\* GetLines: len(fc.Lines).
GetLines(lines) == Len(lines)

\* GetBlankLines: count++ for every line that isBlankLine.
RECURSIVE GetBlankLines(_)
GetBlankLines(lines) ==
    IF lines = <<>> THEN 0
    ELSE (IF isBlankLine(Head(lines)) THEN 1 ELSE 0) + GetBlankLines(Tail(lines))

\* The loop of GetCommentLines from index i (0-based, as in the source):
\* index 0 is skipped, every other isCommentLine line counts.
RECURSIVE GetCommentLinesFrom(_, _)
GetCommentLinesFrom(lines, i) ==
    IF i >= Len(lines) THEN 0
    ELSE (IF i # 0 /\ isCommentLine(lines[i + 1]) THEN 1 ELSE 0)
         + GetCommentLinesFrom(lines, i + 1)

\* GetCommentLines.
GetCommentLines(lines) == GetCommentLinesFrom(lines, 0)

\* A slip GetCodeLines could make: the comment lines are not subtracted.
GetCodeLinesNoComments(lines) == GetLines(lines) - GetBlankLines(lines)

\* GetCodeLines: total - blanks - comments.
GetCodeLines(lines) == GetLines(lines) - GetBlankLines(lines) - GetCommentLines(lines)

\* GetFunctionLines: count++ for every line that isFunctionLine.
RECURSIVE GetFunctionLines(_)
GetFunctionLines(lines) ==
    IF lines = <<>> THEN 0
    ELSE (IF isFunctionLine(Head(lines)) THEN 1 ELSE 0) + GetFunctionLines(Tail(lines))

(***************************************************************************)
(* Function extraction.                                                    *)
(***************************************************************************)

\* GetCodes: the lines that are neither isCommentLine nor isBlankLine, in
\* order.  No line index is involved.
RECURSIVE GetCodes(_)
GetCodes(code) ==
    IF code = <<>> THEN <<>>
    ELSE LET v == Head(code) IN
         IF isCommentLine(v) \/ isBlankLine(v)
         THEN GetCodes(Tail(code))
         ELSE <<v>> \o GetCodes(Tail(code))

KwFunction == <<"f", "u", "n", "c", "t", "i", "o", "n">>

\* GetFunctionName: one left-to-right pass of the Replacer that deletes
\* every "function", "{", "(", ")" and " ".
RECURSIVE GetFunctionName(_)
GetFunctionName(line) ==
    IF line = <<>> THEN <<>>
    ELSE IF HasAt(line, KwFunction, 1)
         THEN GetFunctionName(SubSeq(line, Len(KwFunction) + 1, Len(line)))
         ELSE IF Head(line) \in {"{", "(", ")", " "}
              THEN GetFunctionName(Tail(line))
              ELSE <<Head(line)>> \o GetFunctionName(Tail(line))

\* The key of the bucket of the lines outside every function.
BARE_CODE == <<"B", "A", "R", "E", "_", "C", "O", "D", "E">>

\* result[funcname] = append(result[funcname], v) on a Go map.
MapAppend(result, funcname, v) ==
    IF funcname \in DOMAIN result
    THEN [result EXCEPT ![funcname] = Append(@, v)]
    ELSE result @@ (funcname :> <<v>>)

\* A slip the terminator branch could make: the terminator line is appended.
GetFunctionsTerminatorAppends(st, v) ==
    [flag |-> FALSE, funcname |-> <<>>,
     result |-> MapAppend(st.result, st.funcname, v)]

\* The terminator branch of GetFunctions: flag = false, funcname = "",
\* continue.  The line is not appended.
GetFunctionsTerminator(st, v) ==
    [flag |-> FALSE, funcname |-> <<>>, result |-> st.result]

\* One iteration of the loop of GetFunctions on line v, from the locals
\* st = [flag, funcname, result].
GetFunctionsStep(st, v) ==
    IF st.flag
    THEN IF functionEndExp(v)
         THEN IF functionNotEndExp(v)
              THEN [st EXCEPT !.result = MapAppend(st.result, st.funcname, v)]
              ELSE GetFunctionsTerminator(st, v)
         ELSE [st EXCEPT !.result = MapAppend(st.result, st.funcname, v)]
    ELSE IF isFunctionLine(v)
         THEN [st EXCEPT !.funcname = GetFunctionName(v), !.flag = TRUE]
         ELSE [st EXCEPT !.funcname = BARE_CODE,
                         !.result = MapAppend(st.result, BARE_CODE, v)]

\* The locals of GetFunctions before its loop: an empty map, flag false,
\* funcname "".
GetFunctionsInit == [flag |-> FALSE, funcname |-> <<>>, result |-> <<>>]

RECURSIVE GetFunctionsLoop(_, _)
GetFunctionsLoop(st, code) ==
    IF code = <<>> THEN st
    ELSE GetFunctionsLoop(GetFunctionsStep(st, Head(code)), Tail(code))

\* GetFunctions: the map the loop leaves.
GetFunctions(code) == GetFunctionsLoop(GetFunctionsInit, code).result

(***************************************************************************)
(* Cyclomatic complexity.                                                  *)
(***************************************************************************)

\* The `continue` of CalculateCCN: the line matches ccnExp and NotCcnExp, and
\* the rest of the iteration (the token loop included) is skipped.
CCNContinue(v) == ccnExp(v) /\ NotCcnExp(v)

\* The keyword check of CalculateCCN on a line that is not skipped.
CCNKeywordCheck(result, v) == IF ccnExp(v) THEN result + 1 ELSE result

\* A slip the token loop could make: one increment per occurrence of && or
\* || in the element instead of one per matching element.
ConditionIncrementPerOccurrence(element) ==
    Cardinality({p \in 1..Len(element) :
                    HasAt(element, OpAnd, p) \/ HasAt(element, OpOr, p)})

\* What one element of strings.Split(v, " ") adds: 1 when it matches
\* conditionExp.
ConditionIncrement(element) == IF conditionExp(element) THEN 1 ELSE 0

\* The token loop of CalculateCCN over the elements of strings.Split(v, " ").
RECURSIVE CCNTokenLoop(_, _)
CCNTokenLoop(result, elements) ==
    IF elements = <<>> THEN result
    ELSE CCNTokenLoop(result + ConditionIncrement(Head(elements)), Tail(elements))

\* One iteration of the loop of CalculateCCN on line v.
CalculateCCNStep(result, v) ==
    IF CCNContinue(v) THEN result
    ELSE CCNTokenLoop(CCNKeywordCheck(result, v), Split(v, " "))

RECURSIVE CalculateCCNLoop(_, _)
CalculateCCNLoop(result, code) ==
    IF code = <<>> THEN result
    ELSE CalculateCCNLoop(CalculateCCNStep(result, Head(code)), Tail(code))

\* A slip the initialisation could make: result starts at 0.
CalculateCCNInitZero == [result |-> 0]

\* The locals of CalculateCCN before its loop: result = 1.
CalculateCCNInit == [result |-> 1]

\* CalculateCCN.
CalculateCCN(code) == CalculateCCNLoop(CalculateCCNInit.result, code)

(***************************************************************************)
(* Input lines.  Each definition is the text named in its comment.         *)
(***************************************************************************)

\* The empty line.
LnEmpty ==
    <<>>

\* Two spaces.
LnSpaces ==
    <<" ", " ">>

\* One tab.
LnTab ==
    <<"\t">>

\* #!/bin/sh
LnShebang ==
    <<"#", "!", "/", "b", "i", "n", "/", "s", "h">>

\* A comment after a space:  # c
LnComment ==
    <<" ", "#", " ", "c">>

\* foo() {
LnFoo ==
    <<"f", "o", "o", "(", ")", " ", "{">>

\* function bar () {
LnFunctionBar ==
    <<"f", "u", "n", "c", "t", "i", "o", "n", " ", "b", "a", "r",
      " ", "(", ")", " ", "{">>

\* echo hi
LnEcho ==
    <<"e", "c", "h", "o", " ", "h", "i">>

\* A closing brace alone.
LnClose ==
    <<"}">>

\* echo "}"
LnQuotedClose ==
    <<"e", "c", "h", "o", " ", "\"", "}", "\"">>

\* echo "a() {"
LnDoubleQuotedDecl ==
    <<"e", "c", "h", "o", " ", "\"", "a", "(", ")", " ", "{", "\"">>

\* echo 'a() {'
LnSingleQuotedDecl ==
    <<"e", "c", "h", "o", " ", "'", "a", "(", ")", " ", "{", "'">>

\* if [ -z "$x" ]; then
LnIf ==
    <<"i", "f", " ", "[", " ", "-", "z", " ", "\"", "$", "x", "\"",
      " ", "]", ";", " ", "t", "h", "e", "n">>

\* for i in 1 2; do
LnFor ==
    <<"f", "o", "r", " ", "i", " ", "i", "n", " ", "1", " ", "2",
      ";", " ", "d", "o">>

\* while true; do
LnWhile ==
    <<"w", "h", "i", "l", "e", " ", "t", "r", "u", "e", ";", " ",
      "d", "o">>

\* ;;
LnCaseEnd ==
    <<";", ";">>

\* fi
LnFi ==
    <<"f", "i">>

\* echo "if this then that"
LnQuotedIfText ==
    <<"e", "c", "h", "o", " ", "\"", "i", "f", " ", "t", "h", "i",
      "s", " ", "t", "h", "e", "n", " ", "t", "h", "a", "t", "\"">>

\* echo 'if'
LnSingleQuotedIf ==
    <<"e", "c", "h", "o", " ", "'", "i", "f", "'">>

\* echo "while"
LnDoubleQuotedWhile ==
    <<"e", "c", "h", "o", " ", "\"", "w", "h", "i", "l", "e", "\"">>

\* echo 'for'
LnSingleQuotedFor ==
    <<"e", "c", "h", "o", " ", "'", "f", "o", "r", "'">>

\* echo ";;"
LnDoubleQuotedCaseEnd ==
    <<"e", "c", "h", "o", " ", "\"", ";", ";", "\"">>

\* echo ';;'
LnSingleQuotedCaseEnd ==
    <<"e", "c", "h", "o", " ", "'", ";", ";", "'">>

\* [ $a ] && [ $b ]
LnAnd ==
    <<"[", " ", "$", "a", " ", "]", " ", "&", "&", " ", "[", " ",
      "$", "b", " ", "]">>

\* [ $a ] && [ $b ] || [ $c ]
LnAndOr ==
    <<"[", " ", "$", "a", " ", "]", " ", "&", "&", " ", "[", " ",
      "$", "b", " ", "]", " ", "|", "|", " ", "[", " ", "$", "c",
      " ", "]">>

\* a&&b||c  (one token, two connectives)
LnPacked ==
    <<"a", "&", "&", "b", "|", "|", "c">>

\* echo "if" && true
LnQuotedIfAnd ==
    <<"e", "c", "h", "o", " ", "\"", "i", "f", "\"", " ", "&", "&",
      " ", "t", "r", "u", "e">>

\* if a && b; then
LnIfAnd ==
    <<"i", "f", " ", "a", " ", "&", "&", " ", "b", ";", " ", "t",
      "h", "e", "n">>

\* bar() {
LnBar ==
    <<"b", "a", "r", "(", ")", " ", "{">>

\* function foo () {
LnFunctionFoo ==
    <<"f", "u", "n", "c", "t", "i", "o", "n", " ", "f", "o", "o",
      " ", "(", ")", " ", "{">>

\* done
LnDone ==
    <<"d", "o", "n", "e">>

\* echo $i
LnEchoVar ==
    <<"e", "c", "h", "o", " ", "$", "i">>

\* echo ${i}
LnEchoBraceVar ==
    <<"e", "c", "h", "o", " ", "$", "{", "i", "}">>

\* echo information
LnEchoInformation ==
    <<"e", "c", "h", "o", " ", "i", "n", "f", "o", "r", "m", "a",
      "t", "i", "o", "n">>

\* [ -f $i ] && echo $i
LnTestAndEcho ==
    <<"[", " ", "-", "f", " ", "$", "i", " ", "]", " ", "&", "&",
      " ", "e", "c", "h", "o", " ", "$", "i">>

\* The lines a file is read from.
FileLineSet ==
    {LnEmpty, LnSpaces, LnTab, LnShebang, LnComment, LnFoo, LnFunctionBar,
     LnEcho, LnClose, LnQuotedClose, LnDoubleQuotedDecl, LnSingleQuotedDecl}

\* The lines a function body handed to CalculateCCN is made of.
BodyLineSet ==
    {LnEcho, LnIf, LnFor, LnWhile, LnCaseEnd, LnFi, LnQuotedIfText,
     LnSingleQuotedIf, LnDoubleQuotedWhile, LnSingleQuotedFor,
     LnDoubleQuotedCaseEnd, LnSingleQuotedCaseEnd, LnAnd, LnAndOr, LnPacked,
     LnQuotedIfAnd, LnIfAnd}

\* The declaration lines and loop statements of the two-function scripts.
DeclLineSet == {LnFoo, LnBar, LnFunctionFoo}
StatementSet == {LnEchoVar, LnEchoBraceVar, LnEchoInformation, LnTestAndEcho}

\* The longest file read, in lines.
MaxLines == 3

\* The longest body handed to CalculateCCN, in lines.
MaxBody == 3

\* The most statements inside the for loop of a two-function script.
MaxStatements == 1

\* The sequences over S of length at most n.
SeqsUpTo(S, n) == UNION {[1..k -> S] : k \in 0..n}

\* A function whose body is one for loop: declaration, for line, the
\* statements of the loop, done, closing brace.
ForFunction(decl, statements) ==
    <<decl, LnFor>> \o statements \o <<LnDone, LnClose>>

\* The scripts made of two such functions and nothing else.
TwoFunctionScripts ==
    {ForFunction(d1, s1) \o ForFunction(d2, s2) :
        d1 \in DeclLineSet, d2 \in DeclLineSet,
        s1 \in SeqsUpTo(StatementSet, MaxStatements),
        s2 \in SeqsUpTo(StatementSet, MaxStatements)}

(***************************************************************************)
(* State.                                                                  *)
(***************************************************************************)

VARIABLES
    Lines,          \* fc.Lines
    pc,             \* the operation that runs next
    lineCount,      \* what GetLines returned
    blankCount,     \* what GetBlankLines returned
    commentCount,   \* what GetCommentLines returned
    codeCount,      \* what GetCodeLines returned
    functionCount,  \* what GetFunctionLines returned
    codes,          \* what GetCodes returned: the argument of GetFunctions
    i,              \* GetFunctions: the number of lines of codes consumed
    flag,           \* GetFunctions: flag
    funcname,       \* GetFunctions: funcname
    result,         \* GetFunctions: result
    ccns,           \* CalculateCCN of every entry of result
    code,           \* CalculateCCN: its argument
    idx,            \* CalculateCCN: the number of lines of code consumed
    ccn             \* CalculateCCN: result

fileVars == <<Lines, lineCount, blankCount, commentCount, codeCount, functionCount>>
scanVars == <<codes, i, flag, funcname, result, ccns>>
ccnVars == <<code, idx, ccn>>
vars == <<Lines, pc, lineCount, blankCount, commentCount, codeCount,
          functionCount, codes, i, flag, funcname, result, ccns, code, idx, ccn>>

\* Everything but Lines and pc before any operation has run.
Fresh ==
    /\ lineCount = 0 /\ blankCount = 0 /\ commentCount = 0
    /\ codeCount = 0 /\ functionCount = 0
    /\ codes = <<>> /\ i = 0
    /\ flag = GetFunctionsInit.flag
    /\ funcname = GetFunctionsInit.funcname
    /\ result = GetFunctionsInit.result
    /\ ccns = <<>>
    /\ code = <<>> /\ idx = 0 /\ ccn = CalculateCCNInit.result

(***************************************************************************)
(* Reading a file and reporting on it.                                     *)
(***************************************************************************)

\* Before New: nothing has been read.
Init == Lines = <<>> /\ pc = "toSlice" /\ Fresh

\* toSlice, one turn of the scanner loop: the next line is appended.
toSliceScan ==
    /\ pc = "toSlice"
    /\ Len(Lines) < MaxLines
    /\ \E line \in FileLineSet : Lines' = Append(Lines, line)
    /\ UNCHANGED <<pc, lineCount, blankCount, commentCount, codeCount,
                   functionCount, scanVars, ccnVars>>

\* toSlice returns at the end of the file and New builds the FileContents.
New ==
    /\ pc = "toSlice"
    /\ pc' = "GetCodeLines"
    /\ UNCHANGED <<fileVars, scanVars, ccnVars>>

\* fc.GetCodeLines(), with the three counts it is computed from.
CallGetCodeLines ==
    /\ pc = "GetCodeLines"
    /\ lineCount' = GetLines(Lines)
    /\ blankCount' = GetBlankLines(Lines)
    /\ commentCount' = GetCommentLines(Lines)
    /\ codeCount' = GetCodeLines(Lines)
    /\ pc' = "GetFunctionLines"
    /\ UNCHANGED <<Lines, functionCount, scanVars, ccnVars>>

\* fc.GetFunctionLines().
CallGetFunctionLines ==
    /\ pc = "GetFunctionLines"
    /\ functionCount' = GetFunctionLines(Lines)
    /\ pc' = "GetCodes"
    /\ UNCHANGED <<Lines, lineCount, blankCount, commentCount, codeCount,
                   scanVars, ccnVars>>

\* GetCodes(fc.Lines); GetFunctions is then entered on what it returns.
CallGetCodes ==
    /\ pc = "GetCodes"
    /\ codes' = GetCodes(Lines)
    /\ i' = 0
    /\ flag' = GetFunctionsInit.flag
    /\ funcname' = GetFunctionsInit.funcname
    /\ result' = GetFunctionsInit.result
    /\ pc' = "GetFunctions"
    /\ UNCHANGED <<fileVars, ccns, ccnVars>>

\* GetFunctions, one iteration of its loop.
GetFunctionsIterate ==
    /\ pc = "GetFunctions"
    /\ i < Len(codes)
    /\ LET st == GetFunctionsStep(
                     [flag |-> flag, funcname |-> funcname, result |-> result],
                     codes[i + 1])
       IN  /\ flag' = st.flag
           /\ funcname' = st.funcname
           /\ result' = st.result
    /\ i' = i + 1
    /\ UNCHANGED <<pc, fileVars, codes, ccns, ccnVars>>

\* GetFunctions returns result at the end of its loop.
GetFunctionsReturn ==
    /\ pc = "GetFunctions"
    /\ i = Len(codes)
    /\ pc' = "CalculateCCN"
    /\ UNCHANGED <<fileVars, scanVars, ccnVars>>

\* CalculateCCN on the body of every entry of the map.
CallCalculateCCN ==
    /\ pc = "CalculateCCN"
    /\ ccns' = [name \in DOMAIN result |-> CalculateCCN(result[name])]
    /\ pc' = "done"
    /\ UNCHANGED <<fileVars, codes, i, flag, funcname, result, ccnVars>>

Next ==
    \/ toSliceScan
    \/ New
    \/ CallGetCodeLines
    \/ CallGetFunctionLines
    \/ CallGetCodes
    \/ GetFunctionsIterate
    \/ GetFunctionsReturn
    \/ CallCalculateCCN

Spec == Init /\ [][Next]_vars

(***************************************************************************)
(* The report on a script of two functions.                                *)
(***************************************************************************)

\* A FileContents holding one of the two-function scripts.
InitTwoFunctions == Lines \in TwoFunctionScripts /\ pc = "GetCodeLines" /\ Fresh

NextReport ==
    \/ CallGetCodeLines
    \/ CallGetFunctionLines
    \/ CallGetCodes
    \/ GetFunctionsIterate
    \/ GetFunctionsReturn
    \/ CallCalculateCCN

SpecTwoFunctions == InitTwoFunctions /\ [][NextReport]_vars

(***************************************************************************)
(* CalculateCCN, step by step, on a body of its own.                       *)
(***************************************************************************)

\* CalculateCCN is entered on a body: result = 1.
InitCCN ==
    /\ Lines = <<>> /\ pc = "ccnLine"
    /\ lineCount = 0 /\ blankCount = 0 /\ commentCount = 0
    /\ codeCount = 0 /\ functionCount = 0
    /\ codes = <<>> /\ i = 0
    /\ flag = GetFunctionsInit.flag
    /\ funcname = GetFunctionsInit.funcname
    /\ result = GetFunctionsInit.result
    /\ ccns = <<>>
    /\ code \in SeqsUpTo(BodyLineSet, MaxBody)
    /\ idx = 0
    /\ ccn = CalculateCCNInit.result

\* The keyword check on the next line: either the line is skipped
\* (continue), or result is incremented when ccnExp matches and the token
\* loop comes next.
CCNKeyword ==
    /\ pc = "ccnLine"
    /\ idx < Len(code)
    /\ LET v == code[idx + 1] IN
       IF CCNContinue(v)
       THEN /\ idx' = idx + 1
            /\ UNCHANGED <<pc, ccn>>
       ELSE /\ ccn' = CCNKeywordCheck(ccn, v)
            /\ pc' = "ccnTokens"
            /\ UNCHANGED idx
    /\ UNCHANGED <<fileVars, scanVars, code>>

\* The token loop on the current line, which ends the iteration.
CCNTokens ==
    /\ pc = "ccnTokens"
    /\ ccn' = CCNTokenLoop(ccn, Split(code[idx + 1], " "))
    /\ idx' = idx + 1
    /\ pc' = "ccnLine"
    /\ UNCHANGED <<fileVars, scanVars, code>>

\* CalculateCCN returns result at the end of its loop.
CCNReturn ==
    /\ pc = "ccnLine"
    /\ idx = Len(code)
    /\ pc' = "ccnDone"
    /\ UNCHANGED <<fileVars, scanVars, ccnVars>>

NextCCN ==
    \/ CCNKeyword
    \/ CCNTokens
    \/ CCNReturn

SpecCCN == InitCCN /\ [][NextCCN]_vars

(***************************************************************************)
(* Properties.                                                             *)
(***************************************************************************)

\* The states in which every count of the file has been returned.
Counted == pc \in {"GetCodes", "GetFunctions", "CalculateCCN", "done"}

\* The states in which GetCodes has returned.
Filtered == pc \in {"GetFunctions", "CalculateCCN", "done"}

\* The states in which GetFunctions has returned.
Extracted == pc \in {"CalculateCCN", "done"}

\* The line the loop of GetFunctions handles next.
ScanLine == codes[i + 1]

\* The line the loop of CalculateCCN handles next, or is handling.
BodyLine == code[idx + 1]

\* The sum of f over the elements of a sequence.
RECURSIVE SumOver(_, _)
SumOver(f(_), s) == IF s = <<>> THEN 0 ELSE f(Head(s)) + SumOver(f, Tail(s))

\* ---- C1 -----------------------------------------------------------------
\* C1, as claimed: whenever GetFunctions is inside a function (flag set) and
\* handles a line that contains } and does not match the quote exception,
\* the step appends that line to the body of the active function and leaves
\* flag unset.
TerminatorLineAppended ==
    [][(/\ pc = "GetFunctions"
        /\ i < Len(codes)
        /\ flag
        /\ functionEndExp(ScanLine)
        /\ ~functionNotEndExp(ScanLine))
       => (/\ result' = MapAppend(result, funcname, ScanLine)
           /\ ~flag')]_vars

\* ---- C2 -----------------------------------------------------------------
\* What the keyword check of a line adds: 1 when the line matches a keyword
\* pattern and not the keyword-after-quote exception.
KeywordIncrement(v) == IF ccnExp(v) /\ ~NotCcnExp(v) THEN 1 ELSE 0

\* The number of single-space-separated tokens of the line that hold a
\* logical connective.
ConnectiveTokens(v) ==
    LET elements == Split(v, " ")
    IN  Cardinality({k \in 1..Len(elements) : conditionExp(elements[k])})

\* What a line adds when its connectives count whatever the keyword check
\* found.
IndependentIncrement(v) == KeywordIncrement(v) + ConnectiveTokens(v)

\* C2, as claimed: the connective increments of a line do not depend on the
\* keyword check, so CalculateCCN returns 1 plus, for every line, its keyword
\* increment plus its connective increments, also for a line whose keyword
\* was suppressed by the keyword-after-quote exception.
ConnectivesIndependentOfKeyword ==
    pc = "ccnDone" => ccn = 1 + SumOver(IndependentIncrement, code)

\* ---- C3 -----------------------------------------------------------------
\* The function-start test as specified: every " becomes ', the
\* quote-delimited segments are stripped, and the pattern is tested on what
\* is left.
NormalizedStrippedStart(line) ==
    functionStartExp(removeQuote(ReplaceChar(line, "\"", "'")))

\* C3, as claimed: isFunctionLine agrees with the normalize-strip-test
\* pipeline on every line of the file, and functionCount counts exactly the
\* lines that pass it.
FunctionStartIgnoresQuoted ==
    Counted =>
        /\ \A k \in 1..Len(Lines) :
               isFunctionLine(Lines[k]) <=> NormalizedStrippedStart(Lines[k])
        /\ functionCount =
               Cardinality({k \in 1..Len(Lines) : NormalizedStrippedStart(Lines[k])})

\* ---- C4 -----------------------------------------------------------------
\* C4: once the counts are returned, codeCount + commentCount + blankCount is
\* lineCount, where lineCount is the number of lines, blankCount the number
\* of blank lines and commentCount the number of comment lines after the
\* first line.
CountsAddUp ==
    Counted =>
        /\ codeCount + commentCount + blankCount = lineCount
        /\ lineCount = Len(Lines)
        /\ blankCount = Cardinality({k \in 1..Len(Lines) : isBlankLine(Lines[k])})
        /\ commentCount =
               Cardinality({k \in 2..Len(Lines) : isCommentLine(Lines[k])})

\* C4's case: a file with a blank line, a counted comment line and a code
\* line has been counted.
CountsAddUpWitness ==
    Counted /\ blankCount > 0 /\ commentCount > 0 /\ codeCount > 0

\* ---- C5 -----------------------------------------------------------------
\* C5: the running count of CalculateCCN is at least 1 from its start to its
\* return, for every body (the empty one included), and no step decreases it.
CCNAtLeastOne == [](ccn >= 1) /\ [][ccn' >= ccn]_vars

\* C5's case: CalculateCCN has returned from a scan of a non-empty body that
\* left the count at its start value.
CCNAtLeastOneWitness == pc = "ccnDone" /\ Len(code) >= 1 /\ ccn = 1

\* ---- C6 -----------------------------------------------------------------
\* The quote that is open after the first n characters of the line: "none",
\* or the quote character that opened the string and has not closed it.
RECURSIVE OpenQuote(_, _)
OpenQuote(line, n) ==
    IF n = 0 THEN "none"
    ELSE LET before == OpenQuote(line, n - 1)
             c == line[n]
         IN  IF before = "none"
             THEN (IF c \in Quotes THEN c ELSE "none")
             ELSE (IF c = before THEN "none" ELSE before)

\* Every occurrence of if, while, for or ;; in the line starts inside a
\* quoted string.
AllKeywordsQuoted(line) ==
    \A kw \in {KwIf, KwWhile, KwFor, KwCaseEnd} :
        \A p \in 1..Len(line) :
            HasAt(line, kw, p) => OpenQuote(line, p - 1) # "none"

\* C6, as claimed: the keyword check adds nothing for a line all of whose
\* keyword occurrences (if, while, for, ;;) lie inside quotes.
QuotedKeywordNotCounted ==
    [][(/\ pc = "ccnLine"
        /\ idx < Len(code)
        /\ AllKeywordsQuoted(BodyLine))
       => ccn' = ccn]_vars

\* ---- C7 -----------------------------------------------------------------
\* C7, as claimed: the first line is never a comment: commentCount counts the
\* comment lines after it only, and GetCodes keeps a first line that is not
\* blank, so that it is the first code line.
FirstLineNeverComment ==
    Filtered =>
        /\ commentCount =
               Cardinality({k \in 2..Len(Lines) : isCommentLine(Lines[k])})
        /\ (Lines # <<>> /\ ~isBlankLine(Lines[1]))
               => (codes # <<>> /\ codes[1] = Lines[1])

\* ---- C8 -----------------------------------------------------------------
\* What the end-to-end statement promises of the report: two declarations
\* counted, two rows, none of them BARE_CODE, each with ccn 2.
TwoRowsOfCCNTwo ==
    /\ functionCount = 2
    /\ Cardinality(DOMAIN result) = 2
    /\ BARE_CODE \notin DOMAIN result
    /\ DOMAIN ccns = DOMAIN result
    /\ \A name \in DOMAIN ccns : ccns[name] = 2

\* C8, as claimed: every script of two function declarations, each with one
\* for loop in its body, and nothing at top level is reported as two rows of
\* ccn 2 and functionCount 2.
TwoForFunctionsReport == pc = "done" => TwoRowsOfCCNTwo

\* A line that ends a function for GetFunctions: a } with no quote before it.
Terminates(v) == functionEndExp(v) /\ ~functionNotEndExp(v)

\* Lines lo..hi are a body with one counted loop line: no line holds a }, a
\* function start or a connective, one line holds for and matches ccnExp
\* but not NotCcnExp, and no other line matches ccnExp.
OneLoopBody(lines, lo, hi) ==
    /\ \A k \in lo..hi :
           /\ ~functionEndExp(lines[k])
           /\ ~isFunctionLine(lines[k])
           /\ ~conditionExp(lines[k])
    /\ \E f \in lo..hi :
           /\ Contains(lines[f], KwFor)
           /\ ~NotCcnExp(lines[f])
           /\ \A k \in (lo..hi) \ {f} : ~ccnExp(lines[k])

\* The script is declaration, body, terminator, declaration, body,
\* terminator and nothing else: no line is blank or matches ^\s*#, the two
\* declarations satisfy isFunctionLine and give two different names, neither
\* BARE_CODE, the terminators hold a } with no quote before it and are no
\* function starts, and both bodies are one-loop bodies.
RegularTwoFunctions(lines) ==
    /\ \A k \in 1..Len(lines) : ~isCommentLine(lines[k]) /\ ~isBlankLine(lines[k])
    /\ \E a \in 3..(Len(lines) - 3) :
           /\ isFunctionLine(lines[1])
           /\ isFunctionLine(lines[a + 1])
           /\ GetFunctionName(lines[1]) # GetFunctionName(lines[a + 1])
           /\ BARE_CODE \notin {GetFunctionName(lines[1]), GetFunctionName(lines[a + 1])}
           /\ Terminates(lines[a]) /\ ~isFunctionLine(lines[a])
           /\ Terminates(lines[Len(lines)]) /\ ~isFunctionLine(lines[Len(lines)])
           /\ OneLoopBody(lines, 2, a - 1)
           /\ OneLoopBody(lines, a + 2, Len(lines) - 1)

\* C8, amended: a script that is regular in the sense above is reported as
\* two rows of ccn 2 and functionCount 2.
RegularTwoForFunctionsReport ==
    (pc = "done" /\ RegularTwoFunctions(Lines)) => TwoRowsOfCCNTwo

\* C8's case: the report of a regular two-function script is complete.
RegularTwoForFunctionsWitness == pc = "done" /\ RegularTwoFunctions(Lines)

\* ---- C9 -----------------------------------------------------------------
\* The code lines of a file as specified: the lines from index i (0-based)
\* that are not blank and not a comment, the line at index 0 being never a
\* comment.
RECURSIVE CodeLinesFrom(_, _)
CodeLinesFrom(lines, n) ==
    IF n >= Len(lines) THEN <<>>
    ELSE LET v == lines[n + 1]
         IN  (IF isBlankLine(v) \/ (n # 0 /\ isCommentLine(v)) THEN <<>> ELSE <<v>>)
             \o CodeLinesFrom(lines, n + 1)

\* C9, as claimed, for the files that have a code line: when no line is a
\* function start, GetFunctions leaves the single bucket BARE_CODE, and its
\* body is the code lines of the file in order, none dropped.
BareCodeHoldsEveryCodeLine ==
    (/\ Extracted
     /\ \A k \in 1..Len(Lines) : ~isFunctionLine(Lines[k])
     /\ CodeLinesFrom(Lines, 0) # <<>>)
    => (/\ DOMAIN result = {BARE_CODE}
        /\ result[BARE_CODE] = CodeLinesFrom(Lines, 0))

\* ---- C10 ----------------------------------------------------------------
\* The occurrences of && and || in a token, as the pattern finds them
\* (leftmost, not overlapping).
RECURSIVE Occurrences(_)
Occurrences(element) ==
    IF Len(element) < 2 THEN 0
    ELSE IF HasAt(element, OpAnd, 1) \/ HasAt(element, OpOr, 1)
         THEN 1 + Occurrences(SubSeq(element, 3, Len(element)))
         ELSE Occurrences(Tail(element))

\* The occurrences of && and || over the tokens of a line.
ConnectiveOccurrences(v) == SumOver(Occurrences, Split(v, " "))

\* C10, as claimed: the token loop of a line adds one per occurrence of &&
\* and || in its tokens.
ConnectivesCountedPerOccurrence ==
    [][pc = "ccnTokens" => ccn' = ccn + ConnectiveOccurrences(BodyLine)]_vars

\* C10, amended: the token loop of a line adds one per token that holds a
\* connective, however many the token holds, and a line skipped by the
\* keyword-after-quote exception adds nothing.
ConnectivesCountedPerToken ==
    [][/\ pc = "ccnTokens" => ccn' = ccn + ConnectiveTokens(BodyLine)
       /\ (pc = "ccnLine" /\ idx' = idx + 1) => ccn' = ccn]_vars

\* C10's case: CalculateCCN has returned 2 for the one line a&&b||c, a
\* single token with two connectives.
ConnectivesCountedPerTokenWitness ==
    pc = "ccnDone" /\ code = <<LnPacked>> /\ ccn = 2

=============================================================================
